---- MODULE Spec2Model ----
(***************************************************************************)
(* Release utilities of the pdg build CLI (scripts/_lib/release.py):       *)
(* tag resolution, version increment, commit harvesting and commit         *)
(* categorisation.  Python strings are sequences of one-character strings, *)
(* an Optional value is None == <<>> or Some(x) == <<x>>.                  *)
(***************************************************************************)
EXTENDS Integers, Sequences, FiniteSets, TLC

VARIABLES
    fn,          \* the function called
    pc,          \* "call" before it runs, "done" once it has returned
    version,     \* increment_version: the version argument
    bump,        \* increment_version: the bump argument
    newVersion,  \* increment_version: the value returned
    repoTags,    \* the tag names in the repository
    logLines,    \* the lines git log has for the revision range
    printed,     \* the lines the subprocess wrote to its standard output
    proc,        \* the CompletedProcess: returncode and stdout
    latestTag,   \* get_latest_tag: the value returned
    harvested,   \* get_commits_since_tag: the value returned
    commits,     \* categorize_commits: the commits argument
    categories,  \* categorize_commits: the value returned
    prevTag,     \* the tag argument of the harvester and of the notes generator
    queries,     \* the argument lists of the git commands run so far
    notes,       \* generate_release_notes: the value returned
    args,        \* the parsed command line: version, bump, skip_checks
    relVersion,  \* cmd_release: the version chosen
    ran,         \* the steps and collaborators run so far, in order
    fs,          \* the release artifacts and the build outputs on disk
    fsBefore,    \* the disk as it was when the command started
    result       \* what the command handler returned or raised, "" before

\* the variables of the command handlers of pdg.py
cliVars == <<args, relVersion, ran, fs, fsBefore, result>>

vars == <<fn, pc, version, bump, newVersion, repoTags, logLines, printed, proc,
          latestTag, harvested, commits, categories, prevTag, queries, notes,
          cliVars>>

(* ------------------------------ bounds --------------------------------- *)

\* largest version component drawn for increment_version (9 -> 10 carries)
MaxComponent == 10
\* largest number of tags in the repository
MaxTags == 3
\* largest number of lines the log query prints
MaxLogLines == 3
\* largest number of commits handed to categorize_commits
MaxCommits == 3

(* --------------------------- Python strings ---------------------------- *)

Chars(s) == [i \in 1..Len(s) |-> SubSeq(s, i, i)]

None == <<>>
Some(x) == <<x>>
IsNone(o) == o = <<>>
Unwrap(o) == o[1]

Digits == {"0", "1", "2", "3", "4", "5", "6", "7", "8", "9"}

\* str.isspace() on the characters the model draws
Whitespace == {" ", "\n", "\t", "\r"}

DigitValue(c) ==
    CASE c = "0" -> 0 [] c = "1" -> 1 [] c = "2" -> 2 [] c = "3" -> 3
      [] c = "4" -> 4 [] c = "5" -> 5 [] c = "6" -> 6 [] c = "7" -> 7
      [] c = "8" -> 8 [] c = "9" -> 9

DigitChar(d) ==
    CASE d = 0 -> "0" [] d = 1 -> "1" [] d = 2 -> "2" [] d = 3 -> "3"
      [] d = 4 -> "4" [] d = 5 -> "5" [] d = 6 -> "6" [] d = 7 -> "7"
      [] d = 8 -> "8" [] d = 9 -> "9"

\* int(x) for a string of decimal digits
RECURSIVE ParseInt(_)
ParseInt(s) ==
    IF Len(s) = 0 THEN 0
    ELSE 10 * ParseInt(SubSeq(s, 1, Len(s) - 1)) + DigitValue(s[Len(s)])

\* str(n), the f-string formatting of a non-negative int
RECURSIVE FormatInt(_)
FormatInt(n) ==
    IF n < 10 THEN <<DigitChar(n)>>
    ELSE FormatInt(n \div 10) \o <<DigitChar(n % 10)>>

\* index of the first occurrence of character c in s at or after i, 0 if none
RECURSIVE Find(_, _, _)
Find(s, c, i) ==
    IF i > Len(s) THEN 0
    ELSE IF s[i] = c THEN i
    ELSE Find(s, c, i + 1)

\* s.split(c, maxsplit): at most maxsplit splits, maxsplit = -1 for no limit
RECURSIVE SplitMax(_, _, _)
SplitMax(s, c, maxsplit) ==
    LET k == Find(s, c, 1)
    IN  IF maxsplit = 0 \/ k = 0 THEN <<s>>
        ELSE <<SubSeq(s, 1, k - 1)>>
             \o SplitMax(SubSeq(s, k + 1, Len(s)), c,
                         IF maxsplit < 0 THEN maxsplit ELSE maxsplit - 1)

\* s.split(c)
Split(s, c) == SplitMax(s, c, -1)

\* s.lstrip(): drop leading characters that belong to chars
RECURSIVE LStrip(_, _)
LStrip(s, chars) ==
    IF Len(s) > 0 /\ s[1] \in chars THEN LStrip(Tail(s), chars) ELSE s

RECURSIVE RStrip(_, _)
RStrip(s, chars) ==
    IF Len(s) > 0 /\ s[Len(s)] \in chars
    THEN RStrip(SubSeq(s, 1, Len(s) - 1), chars)
    ELSE s

\* s.strip()
Strip(s) == RStrip(LStrip(s, Whitespace), Whitespace)

\* s.startswith(prefix)
StartsWith(s, prefix) ==
    Len(s) >= Len(prefix) /\ SubSeq(s, 1, Len(prefix)) = prefix

\* sep.join(parts)
RECURSIVE Join(_, _)
Join(parts, sep) ==
    IF Len(parts) = 0 THEN <<>>
    ELSE IF Len(parts) = 1 THEN parts[1]
    ELSE parts[1] \o sep \o Join(Tail(parts), sep)

(* ---------------------------- increment_version ------------------------ *)

\* f"{a}.{b}.{c}"
FormatVersion(a, b, c) ==
    FormatInt(a) \o <<".">> \o FormatInt(b) \o <<".">> \o FormatInt(c)

\* parts = [int(x) for x in version.split(".")]
VersionParts(v) ==
    LET fields == Split(v, ".")
    IN  [i \in 1..Len(fields) |-> ParseInt(fields[i])]

\* a major bump that resets the lower components but keeps the major number
increment_version_major_kept(v, b) ==
    LET parts == VersionParts(v)
    IN  IF b = "major" THEN FormatVersion(parts[1], 0, 0)
        ELSE IF b = "minor" THEN FormatVersion(parts[1], parts[2] + 1, 0)
        ELSE FormatVersion(parts[1], parts[2], parts[3] + 1)

\* a minor bump that does not reset the patch number
increment_version_patch_kept(v, b) ==
    LET parts == VersionParts(v)
    IN  IF b = "major" THEN FormatVersion(parts[1] + 1, 0, 0)
        ELSE IF b = "minor"
             THEN FormatVersion(parts[1], parts[2] + 1, parts[3])
        ELSE FormatVersion(parts[1], parts[2], parts[3] + 1)

increment_version(v, b) ==
    LET parts == VersionParts(v)
    IN  IF b = "major" THEN FormatVersion(parts[1] + 1, 0, 0)
        ELSE IF b = "minor" THEN FormatVersion(parts[1], parts[2] + 1, 0)
        ELSE FormatVersion(parts[1], parts[2], parts[3] + 1)

\* the bump strings drawn: the three kinds, the CLI default, unrecognized ones
BumpKinds == {"major", "minor", "patch", "", "Major", "hotfix"}

\* version strings "a.b.c" of non-negative integers, as get_latest_tag and
\* the --version argument supply them; two carry leading zeros
VersionInputs ==
    {FormatVersion(a, b, c) : a \in 0..MaxComponent, b \in 0..MaxComponent,
                              c \in 0..MaxComponent}
    \cup {Chars("01.02.03"), Chars("0.09.9")}

(* ------------------------ git tag --sort=-v:refname -------------------- *)

\* the characters of tag names, by runs of consecutive ASCII codes
AsciiFrom45 == Chars("-./0123456789")
AsciiFrom65 == Chars("ABCDEFGHIJKLMNOPQRSTUVWXYZ")
AsciiFrom97 == Chars("abcdefghijklmnopqrstuvwxyz")

IndexIn(table, c) == CHOOSE i \in 1..Len(table) : table[i] = c

Occurs(table, c) == \E i \in 1..Len(table) : table[i] = c

\* the byte value of a character
CharCode(c) ==
    IF Occurs(AsciiFrom45, c) THEN 44 + IndexIn(AsciiFrom45, c)
    ELSE IF Occurs(AsciiFrom65, c) THEN 64 + IndexIn(AsciiFrom65, c)
    ELSE IF c = "_" THEN 95
    ELSE 96 + IndexIn(AsciiFrom97, c)

\* the byte at position i of a NUL-terminated string
ByteAt(s, i) == IF i <= Len(s) THEN CharCode(s[i]) ELSE 0

IsDigitCode(b) == b >= 48 /\ b <= 57

\* (c == '0') + (isdigit(c) != 0): 0 for other bytes, 1 for 1..9, 2 for 0
CharClass(b) == (IF b = 48 THEN 1 ELSE 0) + (IF IsDigitCode(b) THEN 1 ELSE 0)

\* states of the version comparison: normal, integral, fractional, zeroes
S_N == 0
S_I == 3
S_F == 6
S_Z == 9
CMP == 2
LEN == 3

\* next_state[state], state = S_x + class of the current byte
NextState ==
    <<S_N, S_I, S_Z,
      S_N, S_I, S_I,
      S_N, S_F, S_F,
      S_N, S_F, S_Z>>

\* result_type[state * 3 + class of the other byte]
ResultType ==
    <<CMP, CMP, CMP, CMP, LEN, CMP, CMP, CMP, CMP,
      CMP, -1,  -1,  1,   LEN, LEN, 1,   LEN, LEN,
      CMP, CMP, CMP, CMP, CMP, CMP, CMP, CMP, CMP,
      CMP, 1,   1,   -1,  CMP, CMP, -1,  CMP, CMP>>

\* the LEN case: the longer run of digits is the larger number
RECURSIVE VersionLenCmp(_, _, _, _)
VersionLenCmp(s1, s2, j, diff) ==
    IF IsDigitCode(ByteAt(s1, j))
    THEN IF ~IsDigitCode(ByteAt(s2, j)) THEN 1
         ELSE VersionLenCmp(s1, s2, j + 1, diff)
    ELSE IF IsDigitCode(ByteAt(s2, j)) THEN -1 ELSE diff

\* the scan over the common prefix, then the verdict at the first difference
RECURSIVE VersionScan(_, _, _, _)
VersionScan(s1, s2, i, state) ==
    LET c1 == ByteAt(s1, i)
        c2 == ByteAt(s2, i)
        diff == c1 - c2
    IN  IF diff = 0
        THEN IF c1 = 0 THEN 0
             ELSE VersionScan(s1, s2, i + 1,
                      NextState[state + 1] + CharClass(ByteAt(s1, i + 1)))
        ELSE LET rt == ResultType[state * 3 + CharClass(c2) + 1]
             IN  IF rt = CMP THEN diff
                 ELSE IF rt = LEN THEN VersionLenCmp(s1, s2, i + 1, diff)
                 ELSE rt

\* git's versioncmp(s1, s2), no versionsort.suffix configured: negative,
\* zero or positive as s1 sorts before, with or after s2
versioncmp(s1, s2) == VersionScan(s1, s2, 1, S_N + CharClass(ByteAt(s1, 1)))

\* the tag names of T in descending version order of the refname
RECURSIVE GitTagListing(_)
GitTagListing(T) ==
    IF T = {} THEN <<>>
    ELSE LET top == CHOOSE t \in T : \A u \in T : versioncmp(t, u) >= 0
         IN  <<top>> \o GitTagListing(T \ {top})

\* the text of lines each ended by a newline
RECURSIVE Unlines(_)
Unlines(lines) ==
    IF Len(lines) = 0 THEN <<>>
    ELSE lines[1] \o <<"\n">> \o Unlines(Tail(lines))

(* ------------------------------ get_latest_tag ------------------------- *)

\* the index after the longest run of digits of s that starts at i
RECURSIVE SkipDigits(_, _)
SkipDigits(s, i) ==
    IF i <= Len(s) /\ s[i] \in Digits THEN SkipDigits(s, i + 1) ELSE i

\* a pattern without the closing $: anything may follow the third number
MatchSemver_unanchored(tag) ==
    LET n == Len(tag)
        i0 == IF n >= 1 /\ tag[1] = "v" THEN 2 ELSE 1
        i1 == SkipDigits(tag, i0)
        i2 == SkipDigits(tag, i1 + 1)
        i3 == SkipDigits(tag, i2 + 1)
    IN  /\ i1 > i0 /\ i1 <= n /\ tag[i1] = "."
        /\ i2 > i1 + 1 /\ i2 <= n /\ tag[i2] = "."
        /\ i3 > i2 + 1

\* re.match(r"^v?\d+\.\d+\.\d+$", tag): $ matches at the end of the string
\* and before a newline that ends it
MatchSemver(tag) ==
    LET n == Len(tag)
        i0 == IF n >= 1 /\ tag[1] = "v" THEN 2 ELSE 1
        i1 == SkipDigits(tag, i0)
        i2 == SkipDigits(tag, i1 + 1)
        i3 == SkipDigits(tag, i2 + 1)
    IN  /\ i1 > i0 /\ i1 <= n /\ tag[i1] = "."
        /\ i2 > i1 + 1 /\ i2 <= n /\ tag[i2] = "."
        /\ i3 > i2 + 1
        /\ (i3 = n + 1 \/ (i3 = n /\ tag[n] = "\n"))

\* result.stdout or ""
StdoutOrEmpty(p) == IF IsNone(p.stdout) THEN <<>> ELSE Unwrap(p.stdout)

\* the for loop over tags: the first match, its leading v characters removed
RECURSIVE FirstSemverTag(_, _)
FirstSemverTag(tags, i) ==
    IF i > Len(tags) THEN None
    ELSE IF MatchSemver(tags[i]) THEN Some(LStrip(tags[i], {"v"}))
    ELSE FirstSemverTag(tags, i + 1)

\* a version that does not look at the exit status of the query
get_latest_tag_any_status(p) ==
    FirstSemverTag(Split(Strip(StdoutOrEmpty(p)), "\n"), 1)

get_latest_tag(p) ==
    IF p.returncode # 0 THEN None
    ELSE FirstSemverTag(Split(Strip(StdoutOrEmpty(p)), "\n"), 1)

\* the tag names drawn for the repository
TagPool ==
    {Chars("v2.1.0"), Chars("v1.0.0"), Chars("2.0.0"), Chars("v1.2.3"),
     Chars("v1.2.3-rc1"), Chars("v1.2.3-beta"), Chars("1.2"),
     Chars("v1.10.0"), Chars("v1.9.0"), Chars("latest")}

\* exit statuses of the subprocess: success, and two failures
ReturnCodes == {0, 1, 128}

\* what stdout holds for the lines written: nothing written shows as None,
\* the empty string or blank lines
StdoutsOf(lines) ==
    IF lines = <<>>
    THEN {None, Some(<<>>), Some(Chars("\n")), Some(Chars(" \n\n"))}
    ELSE {Some(Unlines(lines))}

(* ------------------------- get_commits_since_tag ----------------------- *)

\* a loop that asks for all three fields of a line
RECURSIVE ParseLogLines_three_fields(_, _)
ParseLogLines_three_fields(lines, i) ==
    IF i > Len(lines) THEN <<>>
    ELSE LET parts == SplitMax(lines[i], "|", 2)
         IN  (IF Len(parts) >= 3
              THEN <<[message |-> parts[1], hash |-> parts[2]]>>
              ELSE <<>>)
             \o ParseLogLines_three_fields(lines, i + 1)

\* the loop over lines: a commit for every line of at least two parts
RECURSIVE ParseLogLines(_, _)
ParseLogLines(lines, i) ==
    IF i > Len(lines) THEN <<>>
    ELSE LET parts == SplitMax(lines[i], "|", 2)
         IN  (IF Len(parts) >= 2
              THEN <<[message |-> parts[1], hash |-> parts[2]]>>
              ELSE <<>>)
             \o ParseLogLines(lines, i + 1)

\* a version that takes exit status 1 alone for a failure
get_commits_since_tag_status_one(p) ==
    LET stdout == StdoutOrEmpty(p)
    IN  IF p.returncode = 1 \/ Strip(stdout) = <<>> THEN <<>>
        ELSE ParseLogLines(Split(Strip(stdout), "\n"), 1)

\* a version that does not look at the exit status of the query
get_commits_since_tag_any_status(p) ==
    LET stdout == StdoutOrEmpty(p)
    IN  IF Strip(stdout) = <<>> THEN <<>>
        ELSE ParseLogLines(Split(Strip(stdout), "\n"), 1)

get_commits_since_tag(p) ==
    LET stdout == StdoutOrEmpty(p)
    IN  IF p.returncode # 0 \/ Strip(stdout) = <<>> THEN <<>>
        ELSE ParseLogLines(Split(Strip(stdout), "\n"), 1)

\* commits of the repository: subject, abbreviated hash, author name; one
\* subject holds the separator, one is empty, one is not ASCII (a character
\* outside ASCII is written by its code point)
RepoCommitPool ==
    {[subject |-> Chars("feat: new"), hash |-> Chars("abc1234"), author |-> Chars("ann")],
     [subject |-> Chars("fix: bug"), hash |-> Chars("def5678"), author |-> Chars("bob")],
     [subject |-> Chars("a|b"), hash |-> Chars("c9d8e7f"), author |-> Chars("cy")],
     [subject |-> Chars(""), hash |-> Chars("1234567"), author |-> Chars("dee")],
     [subject |-> Chars("fix: ") \o <<"U+30D0", "U+30B0">>,
      hash |-> Chars("5678def"), author |-> Chars("ann")]}

\* --pretty=format:%s|%h|%an
FormatLogLine(c) == c.subject \o <<"|">> \o c.hash \o <<"|">> \o c.author

\* the log lines drawn: subject|hash|author, lines lacking fields, blank lines
LogLinePool ==
    {FormatLogLine(c) : c \in RepoCommitPool}
    \cup {Chars("docs: x|0a1b2c3"), Chars(" perf: y|7777777|eve "),
          Chars("no separator"), Chars(""), Chars(" ")}

\* stdout of git log --pretty=format:..., with and without a final newline
LogStdoutsOf(lines) ==
    IF lines = <<>> THEN StdoutsOf(lines)
    ELSE {Some(Join(lines, <<"\n">>)), Some(Unlines(lines))}

(* --------------------------- categorize_commits ------------------------ *)

CategoryKeys == {"feat", "fix", "perf", "refactor", "docs", "other"}

\* the dict literal the function starts from
EmptyCategories == [k \in CategoryKeys |-> <<>>]

\* a chain that asks for the colon of a conventional commit after the prefix
CategoryOf_colon(msg) ==
    IF StartsWith(msg, Chars("feat:")) THEN "feat"
    ELSE IF StartsWith(msg, Chars("fix:")) THEN "fix"
    ELSE IF StartsWith(msg, Chars("perf:")) THEN "perf"
    ELSE IF StartsWith(msg, Chars("refactor:")) THEN "refactor"
    ELSE IF StartsWith(msg, Chars("docs:")) THEN "docs"
    ELSE "other"

\* the if / elif chain on msg.startswith(...)
CategoryOf(msg) ==
    IF StartsWith(msg, Chars("feat")) THEN "feat"
    ELSE IF StartsWith(msg, Chars("fix")) THEN "fix"
    ELSE IF StartsWith(msg, Chars("perf")) THEN "perf"
    ELSE IF StartsWith(msg, Chars("refactor")) THEN "refactor"
    ELSE IF StartsWith(msg, Chars("docs")) THEN "docs"
    ELSE "other"

\* the for loop: commits cs[i..] appended to the buckets built so far
RECURSIVE CategorizeFrom(_, _, _)
CategorizeFrom(cs, i, cats) ==
    IF i > Len(cs) THEN cats
    ELSE LET msg == cs[i].message
         IN  CategorizeFrom(cs, i + 1,
                 [cats EXCEPT ![CategoryOf(msg)] = Append(@, msg)])

\* a loop without the final else: commits matching no prefix are dropped
RECURSIVE CategorizeFrom_no_else(_, _, _)
CategorizeFrom_no_else(cs, i, cats) ==
    IF i > Len(cs) THEN cats
    ELSE LET msg == cs[i].message
         IN  CategorizeFrom_no_else(cs, i + 1,
                 IF CategoryOf(msg) = "other" THEN cats
                 ELSE [cats EXCEPT ![CategoryOf(msg)] = Append(@, msg)])

categorize_commits_no_else(cs) == CategorizeFrom_no_else(cs, 1, EmptyCategories)

\* a loop that inserts at the front of the bucket instead of appending
RECURSIVE CategorizeFrom_prepend(_, _, _)
CategorizeFrom_prepend(cs, i, cats) ==
    IF i > Len(cs) THEN cats
    ELSE LET msg == cs[i].message
         IN  CategorizeFrom_prepend(cs, i + 1,
                 [cats EXCEPT ![CategoryOf(msg)] = <<msg>> \o @])

categorize_commits_prepend(cs) == CategorizeFrom_prepend(cs, 1, EmptyCategories)

categorize_commits(cs) == CategorizeFrom(cs, 1, EmptyCategories)

\* commit subjects drawn for categorize_commits
MessagePool ==
    {Chars("feat: perf improvements"), Chars("featuring"), Chars("Feat: x"),
     Chars("fix: bug fix"), Chars("perf: speed up"), Chars("refactor: clean up"),
     Chars("docs: update readme"), Chars("chore: update deps"), Chars("fea"),
     Chars("document"), Chars("")}

CommitPool == {[message |-> m, hash |-> Chars("abc1234")] : m \in MessagePool}

\* sequences over S of length at most n
SeqsUpTo(S, n) == UNION {[1..k -> S] : k \in 0..n}

(* ------------------------- generate_release_notes ---------------------- *)

\* the argument list of the tag query
TagQueryArgs == <<Chars("git"), Chars("tag"), Chars("--sort=-v:refname")>>

\* f"v{tag}..HEAD"
RevisionRange(tag) == <<"v">> \o tag \o Chars("..HEAD")

\* the argument list of the log query
LogQueryArgs(tag) ==
    <<Chars("git"), Chars("log"), RevisionRange(tag),
      Chars("--pretty=format:%s|%h|%an")>>

\* the truth value of a str | None: None and "" are false
Truthy(o) == ~IsNone(o) /\ Unwrap(o) # <<>>

\* the characters [:\s] of the clean-up patterns
PrefixSeparators == {":"} \cup Whitespace

\* a substitution that removes the token only, not what follows it
RegexSubPrefix_token_only(token, msg) ==
    IF StartsWith(msg, Chars(token))
    THEN SubSeq(msg, Len(token) + 1, Len(msg))
    ELSE msg

\* re.sub(r"^token[:\s]*", "", msg)
RegexSubPrefix(token, msg) ==
    IF StartsWith(msg, Chars(token))
    THEN LStrip(SubSeq(msg, Len(token) + 1, Len(msg)), PrefixSeparators)
    ELSE msg

\* the section headings; an emoji is written by its code point
SectionTitle ==
    [feat |-> Chars("## ") \o <<"U+2728">> \o Chars(" New Features"),
     fix |-> Chars("## ") \o <<"U+1F41B">> \o Chars(" Bug Fixes"),
     perf |-> Chars("## ") \o <<"U+26A1">> \o Chars(" Performance"),
     refactor |-> Chars("## ") \o <<"U+1F527">> \o Chars(" Internal Changes")]

\* the for loop of a section: "- " and the cleaned message, per message
Bullets(key, msgs) ==
    [i \in 1..Len(msgs) |-> Chars("- ") \o RegexSubPrefix(key, msgs[i])]

\* a section that is written whether or not its bucket holds a message
SectionLines_always(cats, key) ==
    <<SectionTitle[key] \o <<"\n">>>> \o Bullets(key, cats[key]) \o <<<<>>>>

\* if categories[key]: the heading, the bullets, an empty line
SectionLines(cats, key) ==
    IF cats[key] # <<>>
    THEN <<SectionTitle[key] \o <<"\n">>>> \o Bullets(key, cats[key]) \o <<<<>>>>
    ELSE <<>>

\* lines = [f"## v{version}\n"]
HeadingLine(v) == Chars("## v") \o v \o <<"\n">>

\* "\n".join(lines) for the heading and the four sections in their order
RenderNotes(v, cats) ==
    Join(<<HeadingLine(v)>> \o SectionLines(cats, "feat")
         \o SectionLines(cats, "fix") \o SectionLines(cats, "perf")
         \o SectionLines(cats, "refactor"), <<"\n">>)

\* a generator without the test of prev_tag: it always harvests and renders
generate_release_notes_no_guard(v, prev, p) ==
    LET cs == get_commits_since_tag(p)
        cats == categorize_commits(cs)
    IN  [notes |-> RenderNotes(v, cats),
         queries |-> <<LogQueryArgs(IF IsNone(prev) THEN Chars("None")
                                    ELSE Unwrap(prev))>>,
         commits |-> cs, categories |-> cats]

\* generate_release_notes(version, prev_tag, project_root); p is what the
\* log query returns when it is run.  The value holds the text returned, the
\* queries run, and the commits and categories locals.
generate_release_notes(v, prev, p) ==
    IF Truthy(prev)
    THEN LET cs == get_commits_since_tag(p)
             cats == categorize_commits(cs)
         IN  [notes |-> RenderNotes(v, cats),
              queries |-> <<LogQueryArgs(Unwrap(prev))>>,
              commits |-> cs, categories |-> cats]
    ELSE [notes |-> Join(<<HeadingLine(v)>>, <<"\n">>),
          queries |-> <<>>,
          commits |-> <<>>, categories |-> EmptyCategories]

\* the log lines drawn for the notes: every category, near misses of the
\* prefixes, a line without fields
NotesLinePool ==
    {Chars("feat: new|abc1234|ann"), Chars("fix: bug|def5678|bob"),
     Chars("perf: fast|1111111|cy"), Chars("refactor: tidy|2222222|dee"),
     Chars("docs: x|0a1b2c3"), Chars("chore: c|3333333|ann"),
     Chars("featuring|4444444|bob"), Chars("fix:: y|5555555|cy"),
     Chars("no separator")}

\* prev_tag values: no tag, the empty string, a tag
PrevTagInputs == {None, Some(Chars("")), Some(Chars("1.0.0"))}

(* ------------------------------ lint_all, cmd_lint --------------------- *)

\* one entry of the history: a step or a collaborator that ran, and whether
\* it succeeded
Step(name, ok) == [name |-> name, ok |-> ok]

\* bool as the handlers return it
BoolStr(b) == IF b THEN "True" ELSE "False"

\* def lint_all(fix: bool = False): the names a call can bind
LintAllParams == {"fix"}

\* a call with keyword arguments binds when the function has every name
BindsTo(keywords, params) == keywords \subseteq params

\* lint_all: both linters run, the second whatever the first returned; fe and
\* cpp are what lint_frontend and lint_cpp return
lint_all(fe, cpp) ==
    [ran |-> <<Step("lint_frontend", fe), Step("lint_cpp", cpp),
               Step("lint_all", fe /\ cpp)>>,
     ok |-> fe /\ cpp]

\* cmd_lint: return lint.lint_all(fix=fix, unsafe=unsafe)
cmd_lint(fe, cpp) ==
    IF BindsTo({"fix", "unsafe"}, LintAllParams)
    THEN [ran |-> lint_all(fe, cpp).ran, result |-> BoolStr(lint_all(fe, cpp).ok)]
    ELSE [ran |-> <<>>, result |-> "TypeError"]

\* main: sys.exit(0 if success else 1), and 1 for an exception
ExitCode(res) == IF res = "True" THEN 0 ELSE 1

(* --------------------------------- cmd_release ------------------------- *)

\* a precedence that looks at the latest tag before the version argument
release_version_tag_first(version_arg, latest_tag, bumpArg) ==
    IF Truthy(latest_tag)
    THEN increment_version(Unwrap(latest_tag),
                           IF bumpArg # "" THEN bumpArg ELSE "patch")
    ELSE IF Truthy(version_arg) THEN LStrip(Unwrap(version_arg), {"v"})
    ELSE Chars("1.0.0")

\* "Determine version": the argument, else the bumped latest tag, else 1.0.0
release_version(version_arg, latest_tag, bumpArg) ==
    IF Truthy(version_arg) THEN LStrip(Unwrap(version_arg), {"v"})
    ELSE IF Truthy(latest_tag)
    THEN increment_version(Unwrap(latest_tag),
                           IF bumpArg # "" THEN bumpArg ELSE "patch")
    ELSE Chars("1.0.0")

\* checks that go on to the frontend tests after a failed lint
RunChecks_tests_after_failed_lint(skip, fe, cpp, t) ==
    IF skip THEN [ran |-> <<>>, ok |-> TRUE]
    ELSE [ran |-> lint_all(fe, cpp).ran \o <<Step("test_frontend", t)>>,
          ok |-> t]

\* step 1: lint, then the frontend tests, unless --skip-checks; t is what
\* test_frontend returns
RunChecks(skip, fe, cpp, t) ==
    IF skip THEN [ran |-> <<>>, ok |-> TRUE]
    ELSE IF ~lint_all(fe, cpp).ok
    THEN [ran |-> lint_all(fe, cpp).ran, ok |-> FALSE]
    ELSE [ran |-> lint_all(fe, cpp).ran \o <<Step("test_frontend", t)>>,
          ok |-> t]

\* step 3: dist is removed and made again, then the build outputs are looked
\* for, then copied
CreateDistribution(d) ==
    LET cleared == [d EXCEPT !.dist = "empty"]
    IN  IF ~d.exe THEN [fs |-> cleared, ok |-> FALSE]
        ELSE IF ~d.frontend THEN [fs |-> cleared, ok |-> FALSE]
        ELSE [fs |-> [cleared EXCEPT !.dist = "new"], ok |-> TRUE]

\* the tags of the repositories a release is made in
ReleaseTagPool == {Chars("v1.2.3"), Chars("2.0.0"), Chars("nightly")}

\* the version argument: absent, empty, with a v, with two
VersionArgs ==
    {None, Some(Chars("")), Some(Chars("v3.1.0")), Some(Chars("vv1.2.4"))}

\* args.bump; "" is a namespace without the attribute
BumpArgs == BumpKinds \cup {""}

\* the log of the repository a release is made in
ReleaseLogs ==
    {<<>>, <<Chars("feat: new|abc1234|ann"), Chars("docs: x|0a1b2c3")>>}

\* the disk after an earlier release run: dist, the notes file, the archive
OldDisk == [dist |-> "old", notes |-> Some(Chars("old notes")), zip |-> "old",
            exe |-> FALSE, frontend |-> FALSE]

\* the disk before any run
NoDisk == [dist |-> "absent", notes |-> None, zip |-> "absent",
           exe |-> FALSE, frontend |-> FALSE]

DiskInputs == {NoDisk, OldDisk}

(* ------------------------------- the calls ----------------------------- *)

NoArgs == [version |-> None, bump |-> "patch", skip_checks |-> FALSE,
           fix |-> FALSE, unsafe |-> FALSE]

\* no command handler of pdg.py is running
InitNoCli ==
    /\ args = NoArgs
    /\ fs = NoDisk /\ fsBefore = NoDisk

InitIncrement ==
    /\ fn = "increment_version"
    /\ version \in VersionInputs
    /\ bump \in BumpKinds
    /\ repoTags = {} /\ logLines = <<>> /\ commits = <<>>
    /\ prevTag = None
    /\ InitNoCli

InitLatestTag ==
    /\ fn = "get_latest_tag"
    /\ repoTags \in {T \in SUBSET TagPool : Cardinality(T) <= MaxTags}
    /\ version = <<>> /\ bump = "" /\ logLines = <<>> /\ commits = <<>>
    /\ prevTag = None
    /\ InitNoCli

InitCommitsSince ==
    /\ fn = "get_commits_since_tag"
    /\ logLines \in SeqsUpTo(LogLinePool, MaxLogLines)
    /\ prevTag = Some(Chars("1.0.0"))
    /\ version = <<>> /\ bump = "" /\ repoTags = {} /\ commits = <<>>
    /\ InitNoCli

InitCategorize ==
    /\ fn = "categorize_commits"
    /\ commits \in SeqsUpTo(CommitPool, MaxCommits)
    /\ version = <<>> /\ bump = "" /\ repoTags = {} /\ logLines = <<>>
    /\ prevTag = None
    /\ InitNoCli

InitReleaseNotes ==
    /\ fn = "generate_release_notes"
    /\ version \in {Chars("1.0.0"), Chars("1.1.0")}
    /\ prevTag \in PrevTagInputs
    /\ logLines \in SeqsUpTo(NotesLinePool, MaxLogLines)
    /\ bump = "" /\ repoTags = {} /\ commits = <<>>
    /\ InitNoCli

InitRelease ==
    /\ fn = "cmd_release"
    /\ repoTags \in SUBSET ReleaseTagPool
    /\ logLines \in ReleaseLogs
    /\ args \in [version : VersionArgs, bump : BumpArgs, skip_checks : BOOLEAN,
                 fix : {FALSE}, unsafe : {FALSE}]
    /\ fs \in DiskInputs /\ fsBefore = fs
    /\ version = <<>> /\ bump = "" /\ commits = <<>>
    /\ prevTag = None

InitLint ==
    /\ fn = "cmd_lint"
    /\ args \in [version : {None}, bump : {"patch"}, skip_checks : {FALSE},
                 fix : BOOLEAN, unsafe : BOOLEAN]
    /\ fs = NoDisk /\ fsBefore = NoDisk
    /\ version = <<>> /\ bump = "" /\ repoTags = {} /\ logLines = <<>>
    /\ commits = <<>> /\ prevTag = None

Init ==
    /\ pc = "call"
    /\ newVersion = <<>>
    /\ printed = <<>>
    /\ proc = [returncode |-> 0, stdout |-> None]
    /\ latestTag = None
    /\ harvested = <<>>
    /\ categories = EmptyCategories
    /\ queries = <<>>
    /\ notes = <<>>
    /\ relVersion = <<>>
    /\ ran = <<>>
    /\ result = ""
    /\ \/ InitIncrement
       \/ InitLatestTag
       \/ InitCommitsSince
       \/ InitCategorize
       \/ InitReleaseNotes
       \/ InitRelease
       \/ InitLint

IncrementVersion ==
    /\ fn = "increment_version" /\ pc = "call"
    /\ newVersion' = increment_version(version, bump)
    /\ pc' = "done"
    /\ UNCHANGED <<fn, version, bump, repoTags, logLines, printed, proc,
                   latestTag, harvested, commits, categories, prevTag,
                   queries, notes, cliVars>>

\* subprocess.run(["git", "tag", "--sort=-v:refname"]) and the rest of
\* get_latest_tag; the query prints the sorted tags, or prints nothing
GetLatestTag ==
    /\ fn = "get_latest_tag" /\ pc = "call"
    /\ \E rc \in ReturnCodes, lines \in {GitTagListing(repoTags), <<>>} :
         \E out \in StdoutsOf(lines) :
            /\ printed' = lines
            /\ proc' = [returncode |-> rc, stdout |-> out]
            /\ latestTag' = get_latest_tag([returncode |-> rc, stdout |-> out])
    /\ queries' = Append(queries, TagQueryArgs)
    /\ pc' = "done"
    /\ UNCHANGED <<fn, version, bump, newVersion, repoTags, logLines,
                   harvested, commits, categories, prevTag, notes, cliVars>>

\* subprocess.run(["git", "log", ...]) and the rest of get_commits_since_tag
GetCommitsSinceTag ==
    /\ fn = "get_commits_since_tag" /\ pc = "call"
    /\ \E rc \in ReturnCodes, lines \in {logLines, <<>>} :
         \E out \in LogStdoutsOf(lines) :
            /\ printed' = lines
            /\ proc' = [returncode |-> rc, stdout |-> out]
            /\ harvested' =
                   get_commits_since_tag([returncode |-> rc, stdout |-> out])
    /\ queries' = Append(queries, LogQueryArgs(Unwrap(prevTag)))
    /\ pc' = "done"
    /\ UNCHANGED <<fn, version, bump, newVersion, repoTags, logLines,
                   latestTag, commits, categories, prevTag, notes, cliVars>>

CategorizeCommits ==
    /\ fn = "categorize_commits" /\ pc = "call"
    /\ categories' = categorize_commits(commits)
    /\ pc' = "done"
    /\ UNCHANGED <<fn, version, bump, newVersion, repoTags, logLines, printed,
                   proc, latestTag, harvested, commits, prevTag, queries,
                   notes, cliVars>>

\* generate_release_notes; the log query, when it is run, prints the log
\* lines or nothing and exits with any status
GenerateReleaseNotes ==
    /\ fn = "generate_release_notes" /\ pc = "call"
    /\ \E rc \in ReturnCodes, lines \in {logLines, <<>>} :
         \E out \in LogStdoutsOf(lines) :
            LET p == [returncode |-> rc, stdout |-> out]
                r == generate_release_notes(version, prevTag, p)
            IN  /\ notes' = r.notes
                /\ queries' = queries \o r.queries
                /\ harvested' = r.commits
                /\ categories' = r.categories
                /\ IF r.queries # <<>>
                   THEN printed' = lines /\ proc' = p
                   ELSE UNCHANGED <<printed, proc>>
    /\ pc' = "done"
    /\ UNCHANGED <<fn, version, bump, newVersion, repoTags, logLines,
                   latestTag, commits, prevTag, cliVars>>

\* cmd_release, "Determine version": the tag query and the choice of version
ReleaseVersion ==
    /\ fn = "cmd_release" /\ pc = "call"
    /\ \E rc \in ReturnCodes, lines \in {GitTagListing(repoTags), <<>>} :
         \E out \in StdoutsOf(lines) :
            LET p == [returncode |-> rc, stdout |-> out]
            IN  /\ printed' = lines
                /\ proc' = p
                /\ latestTag' = get_latest_tag(p)
                /\ relVersion' =
                       release_version(args.version, get_latest_tag(p), args.bump)
    /\ queries' = Append(queries, TagQueryArgs)
    /\ pc' = "checks"
    /\ UNCHANGED <<fn, version, bump, newVersion, repoTags, logLines,
                   harvested, commits, categories, prevTag, notes, args, ran,
                   fs, fsBefore, result>>

\* the variables no step after the version touches but the notes step
notesVars == <<printed, proc, harvested, categories, prevTag, queries, notes>>

\* what stays as it is through every step of cmd_release
releaseFrame == <<fn, version, bump, newVersion, repoTags, logLines, latestTag,
                  commits, args, relVersion, fsBefore>>

\* cmd_release, step 1: checks
ReleaseChecks ==
    /\ fn = "cmd_release" /\ pc = "checks"
    /\ \E fe \in BOOLEAN, cpp \in BOOLEAN, t \in BOOLEAN :
          LET r == RunChecks(args.skip_checks, fe, cpp, t)
          IN  /\ ran' = ran \o r.ran
              /\ IF r.ok THEN pc' = "build" /\ UNCHANGED result
                 ELSE pc' = "done" /\ result' = "False"
    /\ UNCHANGED <<releaseFrame, notesVars, fs>>

\* cmd_release, step 2: build_all(build_type="Release", clean=True); the
\* build leaves the executable and the frontend output there or not
ReleaseBuild ==
    /\ fn = "cmd_release" /\ pc = "build"
    /\ \E ok \in BOOLEAN, exe \in BOOLEAN, frontend \in BOOLEAN :
          /\ ran' = Append(ran, Step("build_all", ok))
          /\ fs' = [fs EXCEPT !.exe = exe, !.frontend = frontend]
          /\ IF ok THEN pc' = "dist" /\ UNCHANGED result
             ELSE pc' = "done" /\ result' = "False"
    /\ UNCHANGED <<releaseFrame, notesVars>>

\* cmd_release, step 3: the distribution directory
ReleaseDist ==
    /\ fn = "cmd_release" /\ pc = "dist"
    /\ LET r == CreateDistribution(fs)
       IN  /\ fs' = r.fs
           /\ ran' = Append(ran, Step("dist", r.ok))
           /\ IF r.ok THEN pc' = "notes" /\ UNCHANGED result
              ELSE pc' = "done" /\ result' = "False"
    /\ UNCHANGED <<releaseFrame, notesVars>>

\* cmd_release, step 4: the notes are generated from the latest tag and
\* written to RELEASE_NOTES_v{version}.md
ReleaseNotes ==
    /\ fn = "cmd_release" /\ pc = "notes"
    /\ \E rc \in ReturnCodes, lines \in {logLines, <<>>} :
         \E out \in LogStdoutsOf(lines) :
            LET p == [returncode |-> rc, stdout |-> out]
                r == generate_release_notes(relVersion, latestTag, p)
            IN  /\ notes' = r.notes
                /\ fs' = [fs EXCEPT !.notes = Some(r.notes)]
                /\ queries' = queries \o r.queries
                /\ harvested' = r.commits
                /\ categories' = r.categories
                /\ IF r.queries # <<>>
                   THEN printed' = lines /\ proc' = p
                   ELSE UNCHANGED <<printed, proc>>
    /\ prevTag' = latestTag
    /\ ran' = Append(ran, Step("notes", TRUE))
    /\ pc' = "zip"
    /\ UNCHANGED <<releaseFrame, result>>

\* cmd_release, step 5: the archive of dist, and return True
ReleaseZip ==
    /\ fn = "cmd_release" /\ pc = "zip"
    /\ fs' = [fs EXCEPT !.zip = "new"]
    /\ ran' = Append(ran, Step("zip", TRUE))
    /\ result' = "True"
    /\ pc' = "done"
    /\ UNCHANGED <<releaseFrame, notesVars>>

\* cmd_lint, as main calls it
CmdLint ==
    /\ fn = "cmd_lint" /\ pc = "call"
    /\ \E fe \in BOOLEAN, cpp \in BOOLEAN :
          /\ ran' = cmd_lint(fe, cpp).ran
          /\ result' = cmd_lint(fe, cpp).result
    /\ pc' = "done"
    /\ UNCHANGED <<releaseFrame, notesVars, fs>>

Next ==
    \/ IncrementVersion
    \/ GetLatestTag
    \/ GetCommitsSinceTag
    \/ CategorizeCommits
    \/ GenerateReleaseNotes
    \/ ReleaseVersion
    \/ ReleaseChecks
    \/ ReleaseBuild
    \/ ReleaseDist
    \/ ReleaseNotes
    \/ ReleaseZip
    \/ CmdLint

Spec == Init /\ [][Next]_vars

(* ------------------------------- claims -------------------------------- *)

Returned(f) == fn = f /\ pc = "done"

\* strict lexicographic order on (major, minor, patch)
LexGreater(a, b) ==
    \/ a[1] > b[1]
    \/ a[1] = b[1] /\ a[2] > b[2]
    \/ a[1] = b[1] /\ a[2] = b[2] /\ a[3] > b[3]

\* C1: for every version V and bump kind in {major, minor, patch},
\* increment_version(V, B) is strictly greater than V in the lexicographic
\* order of the (major, minor, patch) triple.
C1_IncrementStrictlyGreater ==
    (Returned("increment_version") /\ bump \in {"major", "minor", "patch"})
        => LexGreater(VersionParts(newVersion), VersionParts(version))

\* 9.9.9 bumped to 10.0.0: greater as a triple although smaller as a string
C1_Witness ==
    /\ Returned("increment_version")
    /\ version = Chars("9.9.9") /\ bump = "major"
    /\ newVersion = Chars("10.0.0")

\* C2: major gives (major+1, 0, 0), minor gives (major, minor+1, 0), patch
\* and every unrecognized bump string give (major, minor, patch+1).
C2_IncrementMapping ==
    Returned("increment_version") =>
        LET v == VersionParts(version)
            expected == CASE bump = "major" -> <<v[1] + 1, 0, 0>>
                          [] bump = "minor" -> <<v[1], v[2] + 1, 0>>
                          [] OTHER -> <<v[1], v[2], v[3] + 1>>
        IN  /\ VersionParts(newVersion) = expected
            /\ newVersion = FormatVersion(expected[1], expected[2], expected[3])

\* the test's minor bump, and an unrecognized bump treated as patch
C2_Witness ==
    /\ Returned("increment_version")
    /\ \/ version = Chars("1.2.3") /\ bump = "minor"
          /\ newVersion = Chars("1.3.0")
       \/ version = Chars("1.2.3") /\ bump = "hotfix"
          /\ newVersion = Chars("1.2.4")

Range(f) == {f[i] : i \in DOMAIN f}

Messages(cs) == [i \in DOMAIN cs |-> cs[i].message]

\* sum of the lengths of the buckets with keys in K
RECURSIVE BucketTotal(_, _)
BucketTotal(cats, K) ==
    IF K = {} THEN 0
    ELSE LET k == CHOOSE x \in K : TRUE
         IN  Len(cats[k]) + BucketTotal(cats, K \ {k})

\* C3: categorize_commits is a total partition: the result has exactly the
\* six keys, the bucket lengths sum to the length of the input, and every
\* input message is in exactly one bucket.
C3_CategorizeTotalPartition ==
    Returned("categorize_commits") =>
        /\ DOMAIN categories = {"feat", "fix", "perf", "refactor", "docs", "other"}
        /\ BucketTotal(categories, DOMAIN categories) = Len(commits)
        /\ \A i \in DOMAIN commits :
               Cardinality({k \in DOMAIN categories :
                   commits[i].message \in Range(categories[k])}) = 1

\* three commits, one of them matching no prefix, land in three buckets
C3_Witness ==
    /\ Returned("categorize_commits")
    /\ Len(commits) = 3
    /\ Len(categories["feat"]) = 1 /\ Len(categories["fix"]) = 1
    /\ Len(categories["other"]) = 1

PrefixOrder == <<"feat", "fix", "perf", "refactor", "docs">>

\* prefix p is a plain, case-sensitive leading substring of message m
HasPrefix(m, p) ==
    LET pc_ == Chars(p)
    IN  Len(m) >= Len(pc_) /\ \A j \in 1..Len(pc_) : m[j] = pc_[j]

\* the bucket of the first prefix in PrefixOrder the message starts with
FirstPrefixBucket(m) ==
    LET hits == {n \in DOMAIN PrefixOrder : HasPrefix(m, PrefixOrder[n])}
    IN  IF hits = {} THEN "other"
        ELSE PrefixOrder[CHOOSE n \in hits : \A o \in hits : n <= o]

\* C4: each commit is in the bucket of the first prefix, in the order feat,
\* fix, perf, refactor, docs, that its message starts with as a plain
\* case-sensitive string prefix, and in other when none matches.
C4_CategorizeFirstPrefix ==
    Returned("categorize_commits") =>
        \A i \in DOMAIN commits :
            LET m == commits[i].message
            IN  /\ m \in Range(categories[FirstPrefixBucket(m)])
                /\ (m = Chars("featuring") => m \in Range(categories["feat"]))
                /\ (m = Chars("Feat: x") => m \in Range(categories["other"]))
                /\ (m = Chars("feat: perf improvements") =>
                        /\ m \in Range(categories["feat"])
                        /\ m \notin Range(categories["perf"]))

C4_Witness ==
    /\ Returned("categorize_commits")
    /\ Messages(commits) = <<Chars("featuring"), Chars("Feat: x"),
                             Chars("feat: perf improvements")>>
    /\ categories["feat"] = <<Chars("featuring"), Chars("feat: perf improvements")>>
    /\ categories["other"] = <<Chars("Feat: x")>>
    /\ categories["perf"] = <<>>

\* C5: every bucket is the subsequence of the input messages that belong to
\* its category, in input order.
C5_CategorizeKeepsOrder ==
    Returned("categorize_commits") =>
        \A k \in DOMAIN categories :
            categories[k] =
                SelectSeq(Messages(commits), LAMBDA m : FirstPrefixBucket(m) = k)

\* two different feat messages keep their input order in the feat bucket
C5_Witness ==
    /\ Returned("categorize_commits")
    /\ Len(categories["feat"]) = 2
    /\ categories["feat"][1] # categories["feat"][2]
    /\ Len(commits) = 3
    /\ commits[1].message = categories["feat"][1]
    /\ commits[3].message = categories["feat"][2]

\* a non-empty run of decimal digits
IsDigitRun(s) == Len(s) >= 1 /\ \A i \in 1..Len(s) : s[i] \in Digits

\* the name with one leading v, if it has one, removed
WithoutLeadingV(t) == IF Len(t) >= 1 /\ t[1] = "v" THEN Tail(t) ELSE t

\* optional v, then digits.digits.digits, and nothing after it
IsStrictSemverName(t) ==
    LET body == WithoutLeadingV(t)
    IN  \E i, j \in 1..Len(body) :
            /\ i < j /\ body[i] = "." /\ body[j] = "."
            /\ IsDigitRun(SubSeq(body, 1, i - 1))
            /\ IsDigitRun(SubSeq(body, i + 1, j - 1))
            /\ IsDigitRun(SubSeq(body, j + 1, Len(body)))

IsBlank(o) == IsNone(o) \/ \A i \in 1..Len(Unwrap(o)) : Unwrap(o)[i] \in Whitespace

\* C6: when the tag query exits with status 0, get_latest_tag returns the
\* first listed tag of the strict shape v?digits.digits.digits, its leading v
\* removed; no tag of another shape is returned, and None when none matches.
C6_LatestTagFirstStrictMatch ==
    (Returned("get_latest_tag") /\ proc.returncode = 0) =>
        LET hits == {i \in DOMAIN printed : IsStrictSemverName(printed[i])}
            first == CHOOSE i \in hits : \A j \in hits : i <= j
        IN  /\ hits = {} => latestTag = None
            /\ hits # {} => latestTag = Some(WithoutLeadingV(printed[first]))
            /\ latestTag # None =>
                   \E i \in DOMAIN printed :
                       /\ IsStrictSemverName(printed[i])
                       /\ WithoutLeadingV(printed[i]) = Unwrap(latestTag)

\* v1.2.3-rc1 is listed first and skipped, v1.2.3 after it is returned
C6_Witness ==
    /\ Returned("get_latest_tag") /\ proc.returncode = 0
    /\ Len(printed) >= 2
    /\ printed[1] = Chars("v1.2.3-rc1")
    /\ latestTag = Some(Chars("1.2.3"))

\* C7: get_latest_tag returns None whenever the tag query exits non-zero,
\* whatever it printed, and whenever its output is None, empty or blank.
C7_LatestTagNoneOnFailure ==
    Returned("get_latest_tag") =>
        /\ proc.returncode # 0 => latestTag = None
        /\ IsBlank(proc.stdout) => latestTag = None

\* a failed query whose output lists a valid tag
C7_Witness ==
    /\ Returned("get_latest_tag")
    /\ proc.returncode = 128
    /\ proc.stdout = Some(Chars("v1.0.0\n"))
    /\ latestTag = None

\* the (major, minor, patch) triple of a tag of the strict shape
TagTriple(t) == VersionParts(WithoutLeadingV(t))

\* C8: for every set of tags, v-prefixed or bare, listed in descending
\* refname version order, the tag returned has the highest (major, minor,
\* patch) triple among the tags of semantic-version shape.
C8_LatestTagIsHighest ==
    (/\ Returned("get_latest_tag") /\ proc.returncode = 0
     /\ printed = GitTagListing(repoTags)) =>
        LET semver == {t \in repoTags : IsStrictSemverName(t)}
        IN  semver # {} =>
                /\ latestTag # None
                /\ \A t \in semver :
                       ~LexGreater(TagTriple(t), VersionParts(Unwrap(latestTag)))

\* C9: get_commits_since_tag returns the empty list whenever the log query
\* exits non-zero, whatever it printed, and whenever its output is None,
\* empty or only whitespace.
C9_CommitsEmptyOnFailure ==
    Returned("get_commits_since_tag") =>
        /\ proc.returncode # 0 => harvested = <<>>
        /\ IsBlank(proc.stdout) => harvested = <<>>

\* a failed query whose output holds a well-formed commit line
C9_Witness ==
    /\ Returned("get_commits_since_tag")
    /\ proc.returncode # 0
    /\ proc.stdout = Some(Chars("feat: new|abc1234|ann"))
    /\ harvested = <<>>

HasPipe(line) == \E i \in 1..Len(line) : line[i] = "|"

\* the positions of the separators of a line
Pipes(line) == {i \in 1..Len(line) : line[i] = "|"}

FirstPipe(line) == CHOOSE i \in Pipes(line) : \A j \in Pipes(line) : i <= j

\* the text before the first separator
FirstField(line) == SubSeq(line, 1, FirstPipe(line) - 1)

\* the text between the first separator and the second, or the end
SecondField(line) ==
    LET later == {i \in Pipes(line) : i > FirstPipe(line)}
        stop == IF later = {} THEN Len(line) + 1
                ELSE CHOOSE i \in later : \A j \in later : i <= j
    IN  SubSeq(line, FirstPipe(line) + 1, stop - 1)

\* C10: on a successful log query get_commits_since_tag returns one commit
\* per output line that contains a '|', in the order of the lines, made of
\* the first two of at most three parts; lines without '|' are dropped.
\* (White space at the two ends of the whole output is not part of a field.)
C10_CommitsOnePerPipedLine ==
    (Returned("get_commits_since_tag") /\ proc.returncode = 0) =>
        LET piped == SelectSeq(printed, HasPipe)
        IN  /\ Len(harvested) = Len(piped)
            /\ \A k \in DOMAIN piped :
                   /\ Strip(harvested[k].message) = Strip(FirstField(piped[k]))
                   /\ Strip(harvested[k].hash) = Strip(SecondField(piped[k]))
                   /\ piped[k] = Strip(piped[k]) =>
                          harvested[k] = [message |-> FirstField(piped[k]),
                                          hash |-> SecondField(piped[k])]

\* a line without separator is dropped between two-part and three-part lines
C10_Witness ==
    /\ Returned("get_commits_since_tag") /\ proc.returncode = 0
    /\ printed = <<Chars("docs: x|0a1b2c3"), Chars("no separator"),
                   Chars("feat: new|abc1234|ann")>>
    /\ harvested = <<[message |-> Chars("docs: x"), hash |-> Chars("0a1b2c3")],
                     [message |-> Chars("feat: new"), hash |-> Chars("abc1234")]>>

\* C11: for every commit whose log line is subject|shorthash|author the
\* commit returned has message equal to the whole subject and hash equal to
\* the short hash, also for subjects that contain '|' or are not ASCII.
C11_CommitKeepsSubjectAndHash ==
    (Returned("get_commits_since_tag") /\ proc.returncode = 0) =>
        LET piped == SelectSeq(printed, HasPipe)
        IN  \A k \in DOMAIN piped : \A c \in RepoCommitPool :
                (FormatLogLine(c) = piped[k] /\ k <= Len(harvested)) =>
                    /\ harvested[k].message = c.subject
                    /\ harvested[k].hash = c.hash

\* the lines of the notes returned
NoteLines == Split(notes, "\n")

IsSectionHeader(line) == StartsWith(line, Chars("## "))

IsBullet(line) == StartsWith(line, Chars("- "))

\* C12: when prev_tag is None, generate_release_notes returns the heading
\* "## v{version}" alone, with no section header and no bullet after it, and
\* it runs no git query.
C12_NoPrevTagHeadingOnly ==
    (Returned("generate_release_notes") /\ IsNone(prevTag)) =>
        /\ NoteLines[1] = Chars("## v") \o version
        /\ \A i \in 2..Len(NoteLines) :
               ~IsSectionHeader(NoteLines[i]) /\ ~IsBullet(NoteLines[i])
        /\ queries = <<>>

\* a call without a previous tag in a repository whose log has commits
C12_Witness ==
    /\ Returned("generate_release_notes") /\ IsNone(prevTag)
    /\ \E i \in DOMAIN logLines : logLines[i] = Chars("feat: new|abc1234|ann")
    /\ notes = Chars("## v1.0.0") \o <<"\n">>

\* the keys that have a section, in the order of the sections
RenderedKeys == <<"feat", "fix", "perf", "refactor">>

NonEmptyKey(k) == categories[k] # <<>>

\* the section headers expected for the buckets that hold a message
ExpectedHeaders ==
    LET keys == SelectSeq(RenderedKeys, NonEmptyKey)
    IN  [i \in 1..Len(keys) |-> SectionTitle[keys[i]]]

\* C13: when prev_tag is given, the notes are the heading "## v{version}"
\* followed by the sections New Features, Bug Fixes, Performance, Internal
\* Changes in that order, a section being there exactly when its bucket is
\* not empty; the docs and other buckets add no section and no bullet.
C13_SectionsInFixedOrder ==
    (Returned("generate_release_notes") /\ ~IsNone(prevTag)) =>
        /\ NoteLines[1] = Chars("## v") \o version
        /\ SelectSeq(Tail(NoteLines), IsSectionHeader) = ExpectedHeaders
        /\ Len(SelectSeq(NoteLines, IsBullet))
               = BucketTotal(categories, Range(RenderedKeys))

\* notes with two sections, a skipped section between them, and a docs commit
C13_Witness ==
    /\ Returned("generate_release_notes") /\ ~IsNone(prevTag)
    /\ categories["feat"] # <<>> /\ categories["fix"] = <<>>
    /\ categories["perf"] # <<>> /\ categories["docs"] # <<>>
    /\ SelectSeq(Tail(NoteLines), IsSectionHeader)
           = <<SectionTitle["feat"], SectionTitle["perf"]>>

\* the message without its token and without the colons and spaces after it
AfterPrefix(key, m) ==
    LET rest == SubSeq(m, Len(key) + 1, Len(m))
        kept == {i \in 1..Len(rest) : rest[i] \notin {":", " ", "\t", "\n", "\r"}}
    IN  IF kept = {} THEN <<>>
        ELSE SubSeq(rest, CHOOSE i \in kept : \A j \in kept : i <= j, Len(rest))

\* the line of the notes where the section of a key starts
HeaderIndex(k) == CHOOSE i \in DOMAIN NoteLines : NoteLines[i] = SectionTitle[k]

\* C14: each section holds one bullet per message of its bucket, in bucket
\* order, and the bullet is "- " and the message without its category token
\* and the colons and spaces after the token; the rest of the message is kept.
C14_BulletPerMessagePrefixRemoved ==
    (Returned("generate_release_notes") /\ ~IsNone(prevTag)) =>
        /\ \A k \in Range(RenderedKeys) :
               categories[k] # <<>> =>
                   /\ \E i \in DOMAIN NoteLines : NoteLines[i] = SectionTitle[k]
                   /\ \A j \in DOMAIN categories[k] :
                          /\ HeaderIndex(k) + 1 + j <= Len(NoteLines)
                          /\ NoteLines[HeaderIndex(k) + 1 + j]
                                 = Chars("- ") \o AfterPrefix(k, categories[k][j])
                   /\ HeaderIndex(k) + 2 + Len(categories[k]) <= Len(NoteLines)
                   /\ ~IsBullet(NoteLines[HeaderIndex(k) + 2 + Len(categories[k])])
        /\ Len(SelectSeq(NoteLines, IsBullet))
               = Len(categories["feat"]) + Len(categories["fix"])
                 + Len(categories["perf"]) + Len(categories["refactor"])

\* two fix messages, the second with two colons, rendered in log order
C14_Witness ==
    /\ Returned("generate_release_notes")
    /\ categories["fix"] = <<Chars("fix: bug"), Chars("fix:: y")>>
    /\ SelectSeq(NoteLines, IsBullet) = <<Chars("- bug"), Chars("- y")>>

\* C15: when prev_tag is given and the log query exits non-zero or prints
\* nothing, generate_release_notes returns the text it returns for the same
\* version without a previous tag: the heading alone.
C15_NotesDegradeOnQueryFailure ==
    (/\ Returned("generate_release_notes") /\ Truthy(prevTag)
     /\ (proc.returncode # 0 \/ IsBlank(proc.stdout))) =>
        /\ notes = generate_release_notes(version, None, proc).notes
        /\ notes = Chars("## v") \o version \o <<"\n">>

\* a log query that printed a feat commit and exited with status 128
C15_Witness ==
    /\ Returned("generate_release_notes") /\ Truthy(prevTag)
    /\ proc.returncode = 128
    /\ \E i \in DOMAIN printed : printed[i] = Chars("feat: new|abc1234|ann")
    /\ ~IsBlank(proc.stdout)
    /\ notes = Chars("## v1.0.0") \o <<"\n">>

\* the revision ranges of the log queries run so far
LogRanges ==
    {queries[i][3] : i \in {j \in DOMAIN queries : queries[j][2] = Chars("log")}}

\* the tag a range "T..HEAD" starts at
RangeTag(r) == SubSeq(r, 1, Len(r) - Len("..HEAD"))

\* the tag of the repository get_latest_tag took its version from
AcceptedTag == SelectSeq(GitTagListing(repoTags), IsStrictSemverName)[1]

\* C16: when cmd_release resolved the tag T of the repository to the version
\* R, the range 'v' + R + '..HEAD' of its log query starts at T, a tag that
\* exists in the repository.
C16_RangeNamesResolvedTag ==
    (fn = "cmd_release" /\ Truthy(latestTag)) =>
        \A r \in LogRanges :
            /\ WithoutLeadingV(AcceptedTag) = Unwrap(latestTag)
            /\ RangeTag(r) = AcceptedTag
            /\ RangeTag(r) \in repoTags

\* all the v at the start of a string removed
StripVs(s) ==
    LET kept == {i \in 1..Len(s) : s[i] # "v"}
    IN  IF kept = {} THEN <<>>
        ELSE SubSeq(s, CHOOSE i \in kept : \A j \in kept : i <= j, Len(s))

VersionGiven == ~IsNone(args.version) /\ Unwrap(args.version) # <<>>

\* C17: cmd_release takes the version argument, without the v before it,
\* whatever the latest tag is; without an argument and with a latest tag it
\* takes increment_version(latest tag, bump), bump being patch by default,
\* a version greater than the latest tag; with neither it takes 1.0.0.
C17_VersionPrecedence ==
    (fn = "cmd_release" /\ pc # "call") =>
        IF VersionGiven THEN relVersion = StripVs(Unwrap(args.version))
        ELSE IF ~IsNone(latestTag)
        THEN /\ relVersion =
                    increment_version(Unwrap(latestTag),
                                      IF args.bump = "" THEN "patch" ELSE args.bump)
             /\ LexGreater(VersionParts(relVersion),
                           VersionParts(Unwrap(latestTag)))
        ELSE relVersion = Chars("1.0.0")

\* an argument that is older than the latest tag is still the version
C17_Witness ==
    /\ fn = "cmd_release" /\ pc = "done" /\ result = "True"
    /\ args.version = Some(Chars("vv1.2.4")) /\ args.bump = "major"
    /\ latestTag = Some(Chars("2.0.0"))
    /\ relVersion = Chars("1.2.4")

\* the place of a step in the order of cmd_release
StepRank ==
    [lint_frontend |-> 1, lint_cpp |-> 2, lint_all |-> 3, test_frontend |-> 4,
     build_all |-> 5, dist |-> 6, notes |-> 7, zip |-> 8]

IsReleaseStep(s) ==
    s.name \in {"lint_all", "test_frontend", "build_all", "dist", "notes", "zip"}

\* the history without what lint_all runs inside
ReleaseSteps == SelectSeq(ran, IsReleaseStep)

\* C18: cmd_release runs checks, build, distribution, notes, zip in that
\* order; without --skip-checks the build starts only after lint and then the
\* frontend tests passed; the notes file and the archive are written only
\* after a successful build with the executable and the frontend output
\* there; True is returned only after the archive was made, and False at the
\* first failing step, with no step after it.
C18_StepsGateEachOther ==
    fn = "cmd_release" =>
        /\ \A i, j \in DOMAIN ran :
               i < j => StepRank[ran[i].name] < StepRank[ran[j].name]
        /\ \A i \in DOMAIN ran :
               ran[i].name = "build_all" =>
                   \/ args.skip_checks
                   \/ \E j, k \in 1..(i - 1) :
                         /\ j < k
                         /\ ran[j] = Step("lint_all", TRUE)
                         /\ ran[k] = Step("test_frontend", TRUE)
        /\ (\/ fs.notes # fsBefore.notes
            \/ fs.zip # fsBefore.zip
            \/ \E i \in DOMAIN ran : ran[i].name \in {"notes", "zip"}) =>
               /\ Step("build_all", TRUE) \in Range(ran)
               /\ fs.exe /\ fs.frontend
        /\ result = "True" =>
               /\ fs.zip = "new"
               /\ ran[Len(ran)] = Step("zip", TRUE)
        /\ \A i \in DOMAIN ReleaseSteps :
               ~ReleaseSteps[i].ok =>
                   /\ i = Len(ReleaseSteps)
                   /\ pc = "done" /\ result = "False"
        /\ result = "False" =>
               /\ ReleaseSteps # <<>>
               /\ ~ReleaseSteps[Len(ReleaseSteps)].ok

\* a run through every step, checks included
C18_Witness ==
    /\ fn = "cmd_release" /\ result = "True" /\ ~args.skip_checks
    /\ ReleaseSteps = <<Step("lint_all", TRUE), Step("test_frontend", TRUE),
                        Step("build_all", TRUE), Step("dist", TRUE),
                        Step("notes", TRUE), Step("zip", TRUE)>>

\* C19: when cmd_release returns False, the dist directory, the release
\* notes file and the zip archive are as they were before the run.
C19_FailedRunLeavesArtifacts ==
    (fn = "cmd_release" /\ result = "False") =>
        /\ fs.dist = fsBefore.dist
        /\ fs.notes = fsBefore.notes
        /\ fs.zip = fsBefore.zip

\* C20: cmd_lint returns True, exit code 0, exactly when lint_all ran
\* lint_frontend and lint_cpp and both returned True, and False, exit code 1,
\* exactly when one of them failed; lint_cpp runs whatever lint_frontend
\* returned.
C20_LintReportsOutcome ==
    (fn = "cmd_lint" /\ pc = "done") =>
        /\ result \in {"True", "False"}
        /\ \E i, j \in DOMAIN ran :
               /\ ran[i].name = "lint_frontend" /\ ran[j].name = "lint_cpp"
               /\ result = "True" <=> (ran[i].ok /\ ran[j].ok)
               /\ ExitCode(result) = 0 <=> (ran[i].ok /\ ran[j].ok)

====
